---- MODULE Spec2Model ----
(***************************************************************************)
(* Model of the DASHTASK dashboard: the loader (load_data), the imputer    *)
(* (fill_missing_data and its helpers in data_processing.py) and the chart *)
(* callbacks that consume its output (callbacks.py, layouts.py, app.py).   *)
(*                                                                         *)
(* A pandas DataFrame is a record [columns, rows]: the set of its column   *)
(* names and the sequence of its rows, each row a function from the column *)
(* names to values.  A Python exception is a record [error |-> name].      *)
(***************************************************************************)
EXTENDS Integers, Sequences, FiniteSets, TLC

VARIABLES
    df,             \* the dataset held by the callbacks (callbacks.py:21, app.py:20)
    selected_year,  \* argument of the last call / callback
    countries,      \* `countries` argument of the last fill_missing_data call
    result,         \* outcome of the last fill_missing_data call
    figure,         \* outcome of the last chart callback
    source,         \* the external CSV source: its contents, or why it cannot be read
    loaded,         \* per caller of the loader: what it ended with
    earlier,        \* an earlier fill_missing_data call, kept for comparison
    year_slider,    \* the year-slider of the layout: min, max and value
    store,          \* data of selected-year-store
    charts,         \* per chart of the page: the year and figure it was last computed for
    pending         \* the callbacks the browser has triggered and not yet run

\* the state of the page in the browser
page == <<year_slider, store, charts, pending>>

vars == <<df, selected_year, countries, result, figure, source, loaded, earlier, page>>

----------------------------------------------------------------------------
(* Bounds of the model *)

\* longest dataset (number of records)
MaxRows == 3
\* the dataset's years are 1..MaxYear; target years range over 0..MaxYear+1
MaxYear == 4

\* countries that may have records, and one (Z) that never has any
DataCountries == {"A", "B"}
AllEntities == DataCountries \cup {"Z"}
Years == 1..MaxYear
TargetYears == 0..(MaxYear + 1)

\* every country lies on one continent
ContinentOf(c) == IF c = "A" THEN "X" ELSE "Y"

----------------------------------------------------------------------------
(* DataFrames *)

\* columns of gapminder_unfiltered.csv
DataColumns == {"country", "continent", "year", "pop", "gdpPercap", "lifeExp"}

\* pd.DataFrame(): no columns, no rows
EmptyFrame == [columns |-> {}, rows |-> <<>>]

\* the value pandas puts where a frame of a concat lacks a column
NaN == <<>>

Raise(e) == [error |-> e]
Raised(x) == "error" \in DOMAIN x

\* DataFrame.empty
IsEmpty(frame) == frame.columns = {} \/ frame.rows = <<>>

\* frame[frame[col] == v]
Select(frame, col, v) ==
    IF col \notin frame.columns THEN Raise("KeyError")
    ELSE [columns |-> frame.columns,
          rows |-> SelectSeq(frame.rows, LAMBDA r : r[col] = v)]

\* frame[col] = v : the column is added or overwritten in every row
SetColumn(frame, col, v) ==
    [columns |-> frame.columns \cup {col},
     rows |-> [i \in 1..Len(frame.rows) |->
                 [c \in frame.columns \cup {col} |->
                     IF c = col THEN v ELSE frame.rows[i][c]]]]

\* frame[col].unique() as a set
Unique(frame, col) == {frame.rows[i][col] : i \in 1..Len(frame.rows)}

RECURSIVE ConcatRows(_, _)
ConcatRows(frames, cols) ==
    IF frames = <<>> THEN <<>>
    ELSE LET f == Head(frames)
             widened == [i \in 1..Len(f.rows) |->
                           [c \in cols |-> IF c \in f.columns THEN f.rows[i][c] ELSE NaN]]
         IN widened \o ConcatRows(Tail(frames), cols)

\* pd.concat(frames, ignore_index=True): the rows in order, over the union of the columns
Concat(frames) ==
    LET cols == UNION {frames[i].columns : i \in 1..Len(frames)}
    IN [columns |-> cols, rows |-> ConcatRows(frames, cols)]

\* max of a non-empty set of integers
Max(S) == CHOOSE m \in S : \A x \in S : x <= m

----------------------------------------------------------------------------
(* The datasets the model ranges over: up to MaxRows records, in any order, *)
(* of the countries A and B at the years 1..MaxYear.  The measures of the   *)
(* i-th record are all i, so every record is recognisable in the output.    *)

Record(c, y, i) ==
    [country |-> c, continent |-> ContinentOf(c), year |-> y,
     pop |-> i, gdpPercap |-> i, lifeExp |-> i]

Keys == DataCountries \X Years

Frame(k) ==
    [columns |-> DataColumns,
     rows |-> [i \in 1..Len(k) |-> Record(k[i][1], k[i][2], i)]]

Datasets == {Frame(k) : k \in UNION {[1..n -> Keys] : n \in 0..MaxRows}}

\* the entity lists the model ranges over: every list without repetition
EntityLists ==
    {cs \in UNION {[1..n -> AllEntities] : n \in 0..Cardinality(AllEntities)} :
        \A i, j \in 1..Len(cs) : i # j => cs[i] # cs[j]}

----------------------------------------------------------------------------
(* data_processing.py: the imputer *)

get_country_data_for_year(country_data, target_year) ==
    Select(country_data, "year", target_year)

\* a plausible slip: the flag is hard-wired instead of taken from the argument
add_imputation_metadata_flagged(data, is_imputed, original_year) ==
    SetColumn(SetColumn(data, "is_imputed", TRUE), "original_year", original_year)

add_imputation_metadata(data, is_imputed, original_year) ==
    SetColumn(SetColumn(data, "is_imputed", is_imputed), "original_year", original_year)

\* f'Данные за {latest_available_year}'
DataSourceText(year) == <<"Dannye za", year>>

\* sorted(country_data['year'].unique()) filtered to the years below the target;
\* the list is used only for emptiness and max, so it is kept as a set
PreviousYears(country_data, target_year) ==
    {year \in Unique(country_data, "year") : year < target_year}

\* the records of latest_available_year, tagged as imputed
LatestData(country_data, latest_available_year) ==
    SetColumn(
        add_imputation_metadata(Select(country_data, "year", latest_available_year),
                                TRUE, latest_available_year),
        "data_source", DataSourceText(latest_available_year))

\* plausible slips in get_previous_year_data: min instead of max; the filter
\* `year < selected_year` left out; the year not overwritten; the guard on an
\* empty previous_years left out (max of an empty list raises ValueError)
get_previous_year_data_min(country_data, target_year) ==
    LET previous_years == PreviousYears(country_data, target_year)
    IN IF previous_years = {} THEN EmptyFrame
       ELSE SetColumn(LatestData(country_data, -Max({-y : y \in previous_years})),
                      "year", target_year)

get_previous_year_data_any(country_data, target_year) ==
    LET previous_years == Unique(country_data, "year")
    IN IF previous_years = {} THEN EmptyFrame
       ELSE SetColumn(LatestData(country_data, Max(previous_years)), "year", target_year)

get_previous_year_data_keepyear(country_data, target_year) ==
    LET previous_years == PreviousYears(country_data, target_year)
    IN IF previous_years = {} THEN EmptyFrame
       ELSE LatestData(country_data, Max(previous_years))

get_previous_year_data_noguard(country_data, target_year) ==
    LET previous_years == PreviousYears(country_data, target_year)
    IN IF previous_years = {} THEN Raise("ValueError")
       ELSE SetColumn(LatestData(country_data, Max(previous_years)), "year", target_year)

get_previous_year_data(country_data, target_year) ==
    LET previous_years == PreviousYears(country_data, target_year)
    IN IF previous_years = {} THEN EmptyFrame
       ELSE SetColumn(LatestData(country_data, Max(previous_years)), "year", target_year)

\* the loop of fill_missing_data over `countries`, result_records being the
\* list built so far; an exception of a helper ends the loop
RECURSIVE FillLoop(_, _, _, _)
FillLoop(dataframe, target_year, cs, result_records) ==
    IF cs = <<>> THEN [result_records |-> result_records]
    ELSE LET country_data == Select(dataframe, "country", Head(cs))
         IN IF Raised(country_data) THEN country_data
            ELSE LET year_data == get_country_data_for_year(country_data, target_year)
                 IN IF Raised(year_data) THEN year_data
                    ELSE IF ~IsEmpty(year_data)
                    THEN FillLoop(dataframe, target_year, Tail(cs),
                             Append(result_records,
                                    add_imputation_metadata(year_data, FALSE, target_year)))
                    ELSE LET previous_year_data ==
                                 get_previous_year_data(country_data, target_year)
                         IN IF Raised(previous_year_data) THEN previous_year_data
                            ELSE IF ~IsEmpty(previous_year_data)
                            THEN FillLoop(dataframe, target_year, Tail(cs),
                                          Append(result_records, previous_year_data))
                            ELSE FillLoop(dataframe, target_year, Tail(cs), result_records)

Reverse(seq) == [i \in 1..Len(seq) |-> seq[Len(seq) + 1 - i]]

\* a plausible slip: each frame is put in front of the list instead of behind it
fill_missing_data_prepend(dataframe, target_year, cs) ==
    LET looped == FillLoop(dataframe, target_year, cs, <<>>)
    IN IF Raised(looped) THEN looped
       ELSE IF looped.result_records # <<>> THEN Concat(Reverse(looped.result_records))
       ELSE EmptyFrame

fill_missing_data(dataframe, target_year, cs) ==
    LET looped == FillLoop(dataframe, target_year, cs, <<>>)
    IN IF Raised(looped) THEN looped
       ELSE IF looped.result_records # <<>> THEN Concat(looped.result_records)
       ELSE EmptyFrame

\* app.py holds a variant of fill_missing_data of its own: the helpers are
\* written out in the loop, and each frame is concatenated to the table
\* result_df as soon as it is built.  pd.concat keeps the index labels there;
\* the rows of a frame carry no index label in this model.

\* year_data = country_data[year == selected_year].copy(), tagged as original
AppYearData(country_data, target_year) ==
    SetColumn(SetColumn(Select(country_data, "year", target_year),
                        "is_imputed", FALSE),
              "original_year", target_year)

\* a plausible slip: the year of the copied records is left as it was
AppLatestData_keepyear(country_data, latest_available_year, target_year) ==
    SetColumn(SetColumn(SetColumn(Select(country_data, "year", latest_available_year),
                                  "is_imputed", TRUE),
                        "original_year", latest_available_year),
              "data_source", DataSourceText(latest_available_year))

\* latest_data = country_data[year == latest_available_year].copy(), tagged
\* as imputed and moved to the selected year
AppLatestData(country_data, latest_available_year, target_year) ==
    SetColumn(SetColumn(SetColumn(SetColumn(
                  Select(country_data, "year", latest_available_year),
                  "is_imputed", TRUE),
              "original_year", latest_available_year),
          "data_source", DataSourceText(latest_available_year)),
      "year", target_year)

RECURSIVE AppFillLoop(_, _, _, _)
AppFillLoop(dataframe, target_year, cs, result_df) ==
    IF cs = <<>> THEN result_df
    ELSE LET country_data == Select(dataframe, "country", Head(cs))
         IN IF Raised(country_data) THEN country_data
            ELSE LET year_data == Select(country_data, "year", target_year)
                     previous_years ==
                         {year \in Unique(country_data, "year") : year < target_year}
                 IN IF Len(year_data.rows) > 0
                    THEN AppFillLoop(dataframe, target_year, Tail(cs),
                             Concat(<<result_df, AppYearData(country_data, target_year)>>))
                    ELSE IF previous_years # {}
                    THEN AppFillLoop(dataframe, target_year, Tail(cs),
                             Concat(<<result_df,
                                      AppLatestData(country_data, Max(previous_years),
                                                    target_year)>>))
                    ELSE AppFillLoop(dataframe, target_year, Tail(cs), result_df)

\* fill_missing_data of app.py
app_fill_missing_data(dataframe, target_year, cs) ==
    AppFillLoop(dataframe, target_year, cs, EmptyFrame)

\* The objects fill_missing_data works on, by the name that is bound to them.
\* A selection with a boolean mask (and its .copy()) builds a new frame and
\* binds a local name to it; a column assignment writes into the object its
\* name is bound to.
Objects(dataframe) ==
    [dataframe |-> dataframe, country_data |-> EmptyFrame,
     year_data |-> EmptyFrame, latest_data |-> EmptyFrame]

\* a column assignment that writes through to the frame selected from
Write_through(heap, name, col, v) ==
    [heap EXCEPT ![name] = SetColumn(@, col, v), !.dataframe = SetColumn(@, col, v)]

\* name[col] = v
Write(heap, name, col, v) == [heap EXCEPT ![name] = SetColumn(@, col, v)]

\* add_imputation_metadata(data, ...) with `data` bound to the object `name`
WriteMetadata(heap, name, is_imputed, original_year) ==
    Write(Write(heap, name, "is_imputed", is_imputed), name, "original_year", original_year)

\* a plausible slip: the year is assigned to the dataset instead of the copy
WriteYear_dataframe(heap, target_year) == Write(heap, "dataframe", "year", target_year)

\* latest_data['year'] = selected_year
WriteYear(heap, target_year) == Write(heap, "latest_data", "year", target_year)

\* the objects after the loop of fill_missing_data over `countries`
RECURSIVE ObjectsAfterLoop(_, _, _)
ObjectsAfterLoop(heap, target_year, cs) ==
    IF cs = <<>> THEN heap
    ELSE LET selected == [heap EXCEPT
                 !.country_data = Select(heap.dataframe, "country", Head(cs))]
             looked == [selected EXCEPT
                 !.year_data = get_country_data_for_year(selected.country_data, target_year)]
             previous_years == PreviousYears(looked.country_data, target_year)
             copied == [looked EXCEPT
                 !.latest_data = Select(looked.country_data, "year", Max(previous_years))]
             tagged == Write(WriteMetadata(copied, "latest_data", TRUE, Max(previous_years)),
                             "latest_data", "data_source",
                             DataSourceText(Max(previous_years)))
         IN IF ~IsEmpty(looked.year_data)
            THEN ObjectsAfterLoop(WriteMetadata(looked, "year_data", FALSE, target_year),
                                  target_year, Tail(cs))
            ELSE IF previous_years = {}
            THEN ObjectsAfterLoop(looked, target_year, Tail(cs))
            ELSE ObjectsAfterLoop(WriteYear(tagged, target_year), target_year, Tail(cs))

\* the caller's dataframe after fill_missing_data has returned
DatasetAfterFill(dataframe, target_year, cs) ==
    ObjectsAfterLoop(Objects(dataframe), target_year, cs).dataframe

----------------------------------------------------------------------------
(* Specification of the imputer: a dataset is held, and fill_missing_data *)
(* is called on it with any target year and any entity list.              *)

NoCall == [pending |-> TRUE]
Returned(x) == "rows" \in DOMAIN x

Init ==
    /\ df \in Datasets
    /\ selected_year = 0
    /\ countries = <<>>
    /\ result = NoCall
    /\ figure = NoCall
    /\ source = [contents |-> df]
    /\ loaded = NoCall
    /\ earlier = NoCall
    /\ year_slider = NoCall
    /\ store = NoCall
    /\ charts = NoCall
    /\ pending = {}

\* one call of fill_missing_data(df, year, cs) by a caller that has no call open
FillMissingData ==
    \E year \in TargetYears, cs \in EntityLists :
        /\ result = NoCall
        /\ selected_year' = year
        /\ countries' = cs
        /\ result' = fill_missing_data(df, year, cs)
        /\ df' = DatasetAfterFill(df, year, cs)
        /\ UNCHANGED <<figure, source, loaded, earlier, page>>

\* the caller drops the reconstruction: it is rebuilt on every call
Discard ==
    /\ result # NoCall
    /\ result' = NoCall
    /\ selected_year' = 0
    /\ countries' = <<>>
    /\ UNCHANGED <<df, figure, source, loaded, earlier, page>>

Next == FillMissingData \/ Discard

Spec == Init /\ [][Next]_vars

----------------------------------------------------------------------------
(* callbacks.py: the chart callbacks, consumers of the imputer's output *)

\* head(15) in update_top_population
TopN == 15

\* numeric_columns of the layout: the measures offered for the bubble axes
NumericColumns == {"pop", "gdpPercap", "lifeExp"}

\* the continents in the order groupby sorts them
ContinentOrder == <<"X", "Y">>

\* frame[col].unique(): the distinct values in order of first appearance
RECURSIVE UniqueSeqOf(_, _)
UniqueSeqOf(seq, seen) ==
    IF seq = <<>> THEN <<>>
    ELSE IF Head(seq) \in seen THEN UniqueSeqOf(Tail(seq), seen)
    ELSE <<Head(seq)>> \o UniqueSeqOf(Tail(seq), seen \cup {Head(seq)})

UniqueSeq(frame, col) ==
    UniqueSeqOf([i \in 1..Len(frame.rows) |-> frame.rows[i][col]], {})

\* df['country'].unique()
all_countries == UniqueSeq(df, "country")

\* the sequences got by putting row into a sequence sorted by col ascending
InsertAscending(row, sorted, col) ==
    {SubSeq(sorted, 1, k) \o <<row>> \o SubSeq(sorted, k + 1, Len(sorted)) :
        k \in {k \in 0..Len(sorted) :
                  /\ k = 0 \/ sorted[k][col] <= row[col]
                  /\ k = Len(sorted) \/ sorted[k + 1][col] >= row[col]}}

\* the sequences got by putting row into a sequence sorted by col descending.
\* sort_values sorts with the default kind 'quicksort', which is not stable:
\* rows with equal values come out in an order the caller does not control,
\* so the row may go to any place among the rows equal to it.
InsertDescending(row, sorted, col) ==
    {SubSeq(sorted, 1, k) \o <<row>> \o SubSeq(sorted, k + 1, Len(sorted)) :
        k \in {k \in 0..Len(sorted) :
                  /\ k = 0 \/ sorted[k][col] >= row[col]
                  /\ k = Len(sorted) \/ sorted[k + 1][col] <= row[col]}}

\* the orders in which the rows can come out of the sort
RECURSIVE SortDescending(_, _)
SortDescending(rows, col) ==
    IF rows = <<>> THEN {<<>>}
    ELSE UNION {InsertDescending(rows[Len(rows)], sorted, col) :
                   sorted \in SortDescending(SubSeq(rows, 1, Len(rows) - 1), col)}

\* frame.sort_values(col, ascending=False): the outcomes it can have
sort_values(frame, col) ==
    IF Raised(frame) THEN {frame}
    ELSE IF col \notin frame.columns THEN {Raise("KeyError")}
    ELSE {[columns |-> frame.columns, rows |-> rows] :
             rows \in SortDescending(frame.rows, col)}

\* frame.head(n)
head(frame, n) ==
    [columns |-> frame.columns,
     rows |-> SubSeq(frame.rows, 1, IF Len(frame.rows) < n THEN Len(frame.rows) ELSE n)]

\* a plausible slip: .all() for .any()
has_imputed_all(frame) ==
    /\ "is_imputed" \in frame.columns
    /\ \A i \in 1..Len(frame.rows) : frame.rows[i].is_imputed

\* 'is_imputed' in frame.columns and frame['is_imputed'].any()
has_imputed(frame) ==
    /\ "is_imputed" \in frame.columns
    /\ \E i \in 1..Len(frame.rows) : frame.rows[i].is_imputed

create_population_hover_texts(top_countries) ==
    [i \in 1..Len(top_countries.rows) |->
        LET row == top_countries.rows[i]
        IN <<row.country, row.pop>> \o
           (IF "is_imputed" \in top_countries.columns /\ row.is_imputed
            THEN DataSourceText(row.original_year) ELSE <<>>)]

\* the annotations add_imputed_data_annotations adds to the bar chart: a star
\* on every imputed bar, and the footnote when any row is imputed
add_imputed_data_annotations(top_countries) ==
    LET starred == SelectSeq(top_countries.rows,
                             LAMBDA row : "is_imputed" \in DOMAIN row /\ row.is_imputed)
    IN [stars |-> [i \in 1..Len(starred) |->
                     [x |-> starred[i].country, y |-> starred[i].pop]],
        footnote |-> has_imputed(top_countries)]

\* the body of update_top_population from the reconstruction on
TopPopulationFigure(sorted) ==
    IF Raised(sorted) THEN sorted
    ELSE LET top_countries == head(sorted, TopN)
         IN [chart |-> "bar",
             data |-> top_countries.rows,
             customdata |-> create_population_hover_texts(top_countries),
             annotations |-> add_imputed_data_annotations(top_countries)]

RECURSIVE SumOf(_, _)
SumOf(rows, col) ==
    IF rows = <<>> THEN 0 ELSE Head(rows)[col] + SumOf(Tail(rows), col)

prepare_continent_data(filled_df) ==
    IF "continent" \notin filled_df.columns THEN Raise("KeyError")
    ELSE LET present == SelectSeq(ContinentOrder,
                                  LAMBDA c : c \in Unique(filled_df, "continent"))
             group(c) == SelectSeq(filled_df.rows, LAMBDA row : row.continent = c)
             imputed(c) == SelectSeq(group(c), LAMBDA row : row.is_imputed)
             names(rows) == {rows[i].country : i \in 1..Len(rows)}
         IN [columns |-> {"continent", "pop", "total_countries", "imputed_count"},
             rows |-> [i \in 1..Len(present) |->
                 [continent |-> present[i],
                  pop |-> SumOf(group(present[i]), "pop"),
                  total_countries |-> Cardinality(names(group(present[i]))),
                  imputed_count |->
                      IF "is_imputed" \in filled_df.columns
                      THEN Cardinality(names(imputed(present[i]))) ELSE 0]]]

create_continent_hover_texts(continent_data) ==
    [i \in 1..Len(continent_data.rows) |->
        LET row == continent_data.rows[i]
        IN <<row.continent, row.pop, row.imputed_count, row.total_countries>>]

\* the body of update_continent_population from the reconstruction on
ContinentPopulationFigure(filled_df) ==
    LET continent_data == prepare_continent_data(filled_df)
    IN IF Raised(continent_data) THEN continent_data
       ELSE [chart |-> "pie",
             data |-> continent_data.rows,
             customdata |-> create_continent_hover_texts(continent_data),
             annotations |-> [stars |-> <<>>, footnote |-> has_imputed(filled_df)]]

\* the hover note add_imputed_data_hover_info gives the trace of a country
add_imputed_data_hover_info(filtered_df, country_name) ==
    LET country_data == Select(filtered_df, "country", country_name)
    IN IF "is_imputed" \notin filtered_df.columns THEN <<>>
       ELSE IF ~IsEmpty(country_data) /\ country_data.rows[1].is_imputed
       THEN DataSourceText(country_data.rows[1].original_year)
       ELSE <<>>

\* the body of update_bubble_chart from the reconstruction on: px.scatter
\* refuses a frame without the columns it is told to plot, and draws one
\* trace per country
BubbleChartFigure(filtered_df, x_axis, y_axis, size) ==
    IF ~({x_axis, y_axis, size, "country"} \subseteq filtered_df.columns)
    THEN Raise("ValueError")
    ELSE LET names == UniqueSeq(filtered_df, "country")
         IN [chart |-> "scatter",
             data |-> [i \in 1..Len(names) |->
                 [name |-> names[i],
                  points |-> LET rows == Select(filtered_df, "country", names[i]).rows
                             IN [k \in 1..Len(rows) |->
                                   <<rows[k][x_axis], rows[k][y_axis], rows[k][size]>>]]],
             customdata |-> [i \in 1..Len(names) |->
                 add_imputed_data_hover_info(filtered_df, names[i])],
             annotations |-> [stars |-> <<>>, footnote |-> FALSE]]

\* a callback ends with its figure, or with the exception that stopped it
Outcome(filled_df, fig) == IF Raised(filled_df) THEN filled_df ELSE fig

update_top_population ==
    /\ figure = NoCall
    /\ \E year \in TargetYears :
          \E filled_df \in {fill_missing_data(df, year, all_countries)} :
              /\ selected_year' = year
              /\ countries' = all_countries
              /\ result' = filled_df
              /\ \E sorted \in sort_values(filled_df, "pop") :
                    figure' = Outcome(filled_df, TopPopulationFigure(sorted))
              /\ df' = DatasetAfterFill(df, year, all_countries)
              /\ UNCHANGED <<source, loaded, earlier, page>>

update_continent_population ==
    /\ figure = NoCall
    /\ \E year \in TargetYears :
          \E filled_df \in {fill_missing_data(df, year, all_countries)} :
              /\ selected_year' = year
              /\ countries' = all_countries
              /\ result' = filled_df
              /\ figure' = Outcome(filled_df, ContinentPopulationFigure(filled_df))
              /\ df' = DatasetAfterFill(df, year, all_countries)
              /\ UNCHANGED <<source, loaded, earlier, page>>

update_bubble_chart ==
    /\ figure = NoCall
    /\ \E year \in TargetYears :
          \E filtered_df \in {fill_missing_data(df, year, all_countries)} :
              /\ selected_year' = year
              /\ countries' = all_countries
              /\ result' = filtered_df
              /\ \E x_axis \in NumericColumns, y_axis \in NumericColumns,
                    size \in NumericColumns :
                    figure' = Outcome(filtered_df,
                                  BubbleChartFigure(filtered_df, x_axis, y_axis, size))
              /\ df' = DatasetAfterFill(df, year, all_countries)
              /\ UNCHANGED <<source, loaded, earlier, page>>

\* the figure is sent to the browser; the callback's locals are gone
Rendered ==
    /\ figure # NoCall
    /\ figure' = NoCall
    /\ result' = NoCall
    /\ selected_year' = 0
    /\ countries' = <<>>
    /\ UNCHANGED <<df, source, loaded, earlier, page>>

NextCharts ==
    \/ update_top_population
    \/ update_continent_population
    \/ update_bubble_chart
    \/ Rendered

SpecCharts == Init /\ [][NextCharts]_vars

\* C7: when the reconstruction is empty, every chart callback completes and
\* returns a figure without data (stated for the datasets that hold records:
\* the reconstruction is then empty because the year is before all of them).
C7_EmptyReconstructionRenders ==
    (figure # NoCall /\ df.rows # <<>> /\ Returned(result) /\ result.rows = <<>>) =>
        (~Raised(figure) /\ figure.data = <<>>)

----------------------------------------------------------------------------
(* The chart callbacks on datasets of more countries than the bar chart     *)
(* keeps: one record per country, at year 1 or 2, with populations that     *)
(* repeat, so that head(15) cuts rows off and the sort meets equal values.  *)

\* two countries more than head(15) keeps
TopCountries ==
    <<"A", "B", "C", "D", "E", "F", "G", "H", "I",
      "J", "K", "L", "M", "N", "O", "P", "Q">>

\* the record of the i-th country
TopRecord(i, shift, step, modulus) ==
    [country |-> TopCountries[i], continent |-> ContinentOf(TopCountries[i]),
     year |-> 1 + ((i + shift) % 2), pop |-> (i * step + shift) % modulus,
     gdpPercap |-> i, lifeExp |-> i]

TopFrame(shift, step, modulus) ==
    [columns |-> DataColumns,
     rows |-> [i \in 1..Len(TopCountries) |-> TopRecord(i, shift, step, modulus)]]

\* populations all different (modulus above the number of countries) or with
\* four pairs of equal ones (modulus below it)
TopDatasets ==
    {TopFrame(shift, step, modulus) :
        shift \in 0..MaxRows, step \in {1, 3},
        modulus \in {Len(TopCountries) - 4, Len(TopCountries)}}

InitTop ==
    /\ df \in TopDatasets
    /\ selected_year = 0
    /\ countries = <<>>
    /\ result = NoCall
    /\ figure = NoCall
    /\ source = [contents |-> df]
    /\ loaded = NoCall
    /\ earlier = NoCall
    /\ year_slider = NoCall
    /\ store = NoCall
    /\ charts = NoCall
    /\ pending = {}

SpecTop == InitTop /\ [][NextCharts]_vars

----------------------------------------------------------------------------
(* The loader and its callers: data_processing.load_data, the start-up code *)
(* of app.py, layouts.create_layout and callbacks.register_callbacks.       *)

Callers == {"app", "create_layout", "register_callbacks"}

\* the external CSV: its contents, or the reason it cannot be read
Sources ==
    {[contents |-> d] : d \in Datasets}
        \cup {[failure |-> "unreachable"], [failure |-> "unparsable"]}

\* pd.read_csv(data_url): the table, or the exception of the fetch or the parse
read_csv ==
    IF "failure" \in DOMAIN source
    THEN Raise(IF source.failure = "unreachable" THEN "URLError" ELSE "ParserError")
    ELSE source.contents

load_data == read_csv

\* the replacement dataset of app.py
FallbackFrame ==
    [columns |-> DataColumns,
     rows |-> <<[country |-> "Example", continent |-> "Example", year |-> 2007,
                 pop |-> 1000000, gdpPercap |-> 5000, lifeExp |-> 70]>>]

Min(S) == CHOOSE m \in S : \A x \in S : m <= x

\* a plausible slip: the slider starts one year before the first year
YearSlider_early(available_years) ==
    IF available_years = {} THEN Raise("ValueError")
    ELSE [min |-> Min(available_years) - 1, max |-> Max(available_years),
          value |-> Max(available_years)]

\* dcc.Slider(min=min(available_years), max=max(available_years), value=max(...));
\* min and max of an empty list raise ValueError
YearSlider(available_years) ==
    IF available_years = {} THEN Raise("ValueError")
    ELSE [min |-> Min(available_years), max |-> Max(available_years),
          value |-> Max(available_years)]

InitLoad ==
    /\ source \in Sources
    /\ loaded = [c \in Callers |-> NoCall]
    /\ df = EmptyFrame
    /\ selected_year = 0
    /\ countries = <<>>
    /\ result = NoCall
    /\ figure = NoCall
    /\ earlier = NoCall
    /\ year_slider = NoCall
    /\ store = NoCall
    /\ charts = NoCall
    /\ pending = {}

\* app.py at import: read_csv inside try/except, then the layout
AppStartup ==
    LET read == read_csv
        app_df == IF Raised(read) THEN FallbackFrame ELSE read
        slider == YearSlider(Unique(app_df, "year"))
    IN /\ loaded["app"] = NoCall
       /\ loaded' = [loaded EXCEPT !["app"] =
                        IF Raised(slider) THEN slider
                        ELSE [df |-> app_df, slider |-> slider]]
       /\ UNCHANGED <<df, selected_year, countries, result, figure, source, earlier, page>>

\* create_layout: load_data() outside any try, then the slider and the store
create_layout ==
    LET layout_df == load_data
        slider == IF Raised(layout_df) THEN layout_df
                  ELSE YearSlider(Unique(layout_df, "year"))
    IN /\ loaded["create_layout"] = NoCall
       /\ loaded' = [loaded EXCEPT !["create_layout"] =
                        IF Raised(slider) THEN slider
                        ELSE [df |-> layout_df, slider |-> slider, store |-> slider.max]]
       /\ UNCHANGED <<df, selected_year, countries, result, figure, source, earlier, page>>

\* register_callbacks: load_data() outside any try; the callbacks close over df
register_callbacks ==
    LET callbacks_df == load_data
    IN /\ loaded["register_callbacks"] = NoCall
       /\ loaded' = [loaded EXCEPT !["register_callbacks"] =
                        IF Raised(callbacks_df) THEN callbacks_df
                        ELSE [df |-> callbacks_df]]
       /\ df' = IF Raised(callbacks_df) THEN df ELSE callbacks_df
       /\ UNCHANGED <<selected_year, countries, result, figure, source, earlier, page>>

NextLoad == AppStartup \/ create_layout \/ register_callbacks

SpecLoad == InitLoad /\ [][NextLoad]_vars

\* C6: when the source cannot be reached or parsed, every caller of the loader
\* that has run holds a dataset of at least one record; none ended with the
\* load failure.
C6_LoadFailureFallsBack ==
    "failure" \in DOMAIN source =>
        \A c \in Callers :
            loaded[c] # NoCall =>
                (~Raised(loaded[c]) /\ Len(loaded[c].df.rows) >= 1)

----------------------------------------------------------------------------
(* The page: the year slider and the selected-year store that create_layout *)
(* builds, and the callbacks register_callbacks attaches to them.  The Dash *)
(* runtime runs every callback once when the page is loaded and again when  *)
(* one of its Inputs changes, one invocation at a time, each with the       *)
(* values its Inputs hold when it runs.                                     *)

\* the callbacks that return a figure, and the Input that triggers each
ChartCallbacks ==
    {"update_bubble_chart", "update_top_population", "update_continent_population"}
SliderCallbacks ==
    {"update_selected_year", "update_top_population", "update_continent_population"}
StoreCallbacks == {"update_bubble_chart"}

\* the datasets of the page: a record of A and a record of B, at any years
PageDatasets == {Frame(<<<<"A", a>>, <<"B", b>>>>) : a, b \in Years}

\* create_layout on a loaded dataset: slider and store start at the last year;
\* every callback is due once
InitPage ==
    /\ df \in PageDatasets
    /\ year_slider = YearSlider(Unique(df, "year"))
    /\ store = Max(Unique(df, "year"))
    /\ charts = [c \in ChartCallbacks |-> NoCall]
    /\ pending = ChartCallbacks \cup SliderCallbacks
    /\ selected_year = 0
    /\ countries = <<>>
    /\ result = NoCall
    /\ figure = NoCall
    /\ source = [contents |-> df]
    /\ loaded = NoCall
    /\ earlier = NoCall

\* the user moves the slider: it emits a year between its min and its max
SlideTo ==
    \E year \in year_slider.min..year_slider.max :
        /\ year # year_slider.value
        /\ year_slider' = [year_slider EXCEPT !.value = year]
        /\ pending' = pending \cup SliderCallbacks
        /\ UNCHANGED <<df, selected_year, countries, result, figure, source,
                       loaded, earlier, store, charts>>

\* a plausible slip: the callback returns what the store holds
update_selected_year_stale(year) == store

\* update_selected_year(selected_year): the value for selected-year-store
update_selected_year(year) == year

\* the runtime runs update_selected_year and writes the store
RunSelectedYear ==
    /\ "update_selected_year" \in pending
    /\ store' = update_selected_year(year_slider.value)
    /\ pending' = (pending \ {"update_selected_year"}) \cup StoreCallbacks
    /\ UNCHANGED <<df, selected_year, countries, result, figure, source,
                   loaded, earlier, year_slider, charts>>

\* what a chart callback leaves on the page
Chart(year, filled_df, fig) ==
    [year |-> year, filled_df |-> filled_df, figure |-> Outcome(filled_df, fig)]

\* the runtime runs update_top_population with the slider's value
RunTopPopulation ==
    LET filled_df == fill_missing_data(df, year_slider.value, all_countries)
    IN /\ "update_top_population" \in pending
       /\ \E sorted \in sort_values(filled_df, "pop") :
             charts' = [charts EXCEPT !["update_top_population"] =
                 Chart(year_slider.value, filled_df, TopPopulationFigure(sorted))]
       /\ pending' = pending \ {"update_top_population"}
       /\ df' = DatasetAfterFill(df, year_slider.value, all_countries)
       /\ UNCHANGED <<selected_year, countries, result, figure, source,
                      loaded, earlier, year_slider, store>>

\* the runtime runs update_continent_population with the slider's value
RunContinentPopulation ==
    LET filled_df == fill_missing_data(df, year_slider.value, all_countries)
    IN /\ "update_continent_population" \in pending
       /\ charts' = [charts EXCEPT !["update_continent_population"] =
             Chart(year_slider.value, filled_df, ContinentPopulationFigure(filled_df))]
       /\ pending' = pending \ {"update_continent_population"}
       /\ df' = DatasetAfterFill(df, year_slider.value, all_countries)
       /\ UNCHANGED <<selected_year, countries, result, figure, source,
                      loaded, earlier, year_slider, store>>

\* the runtime runs update_bubble_chart with the store's value and the axes
\* the dropdowns start with
RunBubbleChart ==
    LET filtered_df == fill_missing_data(df, store, all_countries)
    IN /\ "update_bubble_chart" \in pending
       /\ charts' = [charts EXCEPT !["update_bubble_chart"] =
             Chart(store, filtered_df,
                   BubbleChartFigure(filtered_df, "gdpPercap", "lifeExp", "pop"))]
       /\ pending' = pending \ {"update_bubble_chart"}
       /\ df' = DatasetAfterFill(df, store, all_countries)
       /\ UNCHANGED <<selected_year, countries, result, figure, source,
                      loaded, earlier, year_slider, store>>

NextPage ==
    \/ SlideTo
    \/ RunSelectedYear
    \/ RunTopPopulation
    \/ RunContinentPopulation
    \/ RunBubbleChart

SpecPage == InitPage /\ [][NextPage]_vars

----------------------------------------------------------------------------
(* Repeated calls: fill_missing_data is called, its result is kept, any     *)
(* number of other calls are made on the same dataset, and the first call   *)
(* is made again with the same arguments.                                   *)

\* the entity lists of the repeated call: the one the callbacks pass, and one
\* in another order with an entity the dataset does not hold
RepeatLists == {all_countries, <<"Z", "B", "A">>}

\* the first call of fill_missing_data(df, year, cs)
FirstCall ==
    \E year \in TargetYears, cs \in RepeatLists :
        /\ result = NoCall
        /\ earlier = NoCall
        /\ selected_year' = year
        /\ countries' = cs
        /\ result' = fill_missing_data(df, year, cs)
        /\ df' = DatasetAfterFill(df, year, cs)
        /\ UNCHANGED <<figure, source, loaded, earlier, page>>

\* the caller keeps what the first call returned
Keep ==
    /\ result # NoCall
    /\ earlier = NoCall
    /\ earlier' = [year |-> selected_year, countries |-> countries,
                   result |-> result, between |-> FALSE]
    /\ result' = NoCall
    /\ selected_year' = 0
    /\ countries' = <<>>
    /\ UNCHANGED <<df, figure, source, loaded, page>>

\* another call, with any target year, whose result is dropped; calls after
\* the first one find the state they left
CallBetween ==
    \E year \in TargetYears, cs \in RepeatLists :
        /\ result = NoCall
        /\ earlier # NoCall
        /\ ~earlier.between
        /\ df' = DatasetAfterFill(df, year, cs)
        /\ earlier' = [earlier EXCEPT !.between = TRUE]
        /\ UNCHANGED <<selected_year, countries, result, figure, source, loaded, page>>

\* the first call again, with the same arguments
CallAgain ==
    /\ result = NoCall
    /\ earlier # NoCall
    /\ selected_year' = earlier.year
    /\ countries' = earlier.countries
    /\ result' = fill_missing_data(df, earlier.year, earlier.countries)
    /\ df' = DatasetAfterFill(df, earlier.year, earlier.countries)
    /\ UNCHANGED <<figure, source, loaded, earlier, page>>

\* both results are dropped
Forget ==
    /\ result # NoCall
    /\ earlier # NoCall
    /\ result' = NoCall
    /\ earlier' = NoCall
    /\ selected_year' = 0
    /\ countries' = <<>>
    /\ UNCHANGED <<df, figure, source, loaded, page>>

NextRepeat == FirstCall \/ Keep \/ CallBetween \/ CallAgain \/ Forget

SpecRepeat == Init /\ [][NextRepeat]_vars

----------------------------------------------------------------------------
(* Vocabulary of the claims about the imputer *)

\* the entities of the `countries` argument
Requested == {countries[i] : i \in 1..Len(countries)}

\* the position of entity e in the `countries` argument
PositionOf(e) == CHOOSE i \in 1..Len(countries) : countries[i] = e

\* the positions of e's records in the dataset, and the years they are for
RecordsOf(e) == {k \in 1..Len(df.rows) : df.rows[k].country = e}
YearsOf(e) == {df.rows[k].year : k \in RecordsOf(e)}
RecordsAt(e, year) == {k \in RecordsOf(e) : df.rows[k].year = year}

\* the positions of e's rows in the output
RowsOf(e) == {i \in 1..Len(result.rows) : result.rows[i].country = e}

\* row and record agree on the category and on every measure
SamePayload(row, rec) ==
    /\ row.country = rec.country
    /\ row.continent = rec.continent
    /\ row.pop = rec.pop
    /\ row.gdpPercap = rec.gdpPercap
    /\ row.lifeExp = rec.lifeExp

\* C1: the output of fill_missing_data holds at most one row per entity,
\* also when the dataset holds several records for one (entity, year).
C1_AtMostOneRowPerEntity ==
    Returned(result) =>
        \A i, j \in 1..Len(result.rows) :
            i # j => result.rows[i].country # result.rows[j].country

\* C2: an imputed row of entity E has original_year below the target year,
\* and original_year is the largest year below the target at which E has a
\* record; the row's year is the target year and its category and measures
\* are those of a record of E at original_year.
C2_ClosestPriorYear ==
    Returned(result) =>
        \A i \in 1..Len(result.rows) :
            result.rows[i].is_imputed =>
                LET row == result.rows[i]
                    e == row.country
                IN /\ row.original_year < selected_year
                   /\ row.original_year \in YearsOf(e)
                   /\ \A year \in YearsOf(e) :
                          year < selected_year => year <= row.original_year
                   /\ row.year = selected_year
                   /\ \E k \in RecordsAt(e, row.original_year) :
                          SamePayload(row, df.rows[k])

\* an imputed row whose entity has records at two earlier years and at a later one
C2_Witness ==
    /\ Returned(result)
    /\ \E i \in 1..Len(result.rows) :
          /\ result.rows[i].is_imputed
          /\ \E y1, y2, y3 \in YearsOf(result.rows[i].country) :
                y1 < y2 /\ y2 < selected_year /\ selected_year < y3

\* C3: if E has a record at the target year, that record is emitted with its
\* entity, category, year and measures unchanged, is_imputed = FALSE and
\* original_year = target year, also when E has earlier records; no imputed
\* row is emitted for E.
C3_ExactMatch ==
    Returned(result) =>
        \A e \in Requested :
            RecordsAt(e, selected_year) # {} =>
                /\ \A k \in RecordsAt(e, selected_year) :
                      \E i \in RowsOf(e) :
                          /\ SamePayload(result.rows[i], df.rows[k])
                          /\ result.rows[i].year = df.rows[k].year
                          /\ result.rows[i].is_imputed = FALSE
                          /\ result.rows[i].original_year = selected_year
                /\ \A i \in RowsOf(e) : ~result.rows[i].is_imputed

\* a requested entity with a record at the target year and one at an earlier year
C3_Witness ==
    /\ Returned(result)
    /\ \E e \in Requested :
          /\ RecordsAt(e, selected_year) # {}
          /\ \E year \in YearsOf(e) : year < selected_year

\* C4: a requested entity with no record at or before the target year (absent
\* from the dataset, or with later records only) has no row in the output.
C4_Omission ==
    Returned(result) =>
        \A e \in Requested :
            (\A year \in YearsOf(e) : year > selected_year) => RowsOf(e) = {}

\* requested: an absent entity, one with later records only, and one that has a row
C4_Witness ==
    /\ Returned(result)
    /\ result.rows # <<>>
    /\ \E e1, e2 \in Requested :
          /\ YearsOf(e1) = {}
          /\ YearsOf(e2) # {}
          /\ \A year \in YearsOf(e2) : year > selected_year

\* C5: every requested entity with a record at or before the target year has
\* a row in the output, and every row of the output is for the target year.
C5_Completeness ==
    Returned(result) =>
        /\ \A e \in Requested :
              (\E year \in YearsOf(e) : year <= selected_year) => RowsOf(e) # {}
        /\ \A i \in 1..Len(result.rows) : result.rows[i].year = selected_year

\* the output holds an imputed row and an exact row
C5_Witness ==
    /\ Returned(result)
    /\ \E i, j \in 1..Len(result.rows) :
          result.rows[i].is_imputed /\ ~result.rows[j].is_imputed

\* C8: fill_missing_data never raises, and returns no row when no requested
\* entity has a record at or before the target year.
C8_Total ==
    result # NoCall =>
        /\ Returned(result)
        /\ (\A e \in Requested : \A year \in YearsOf(e) : year > selected_year)
              => result.rows = <<>>

\* a call for entities that have records, all later than the target year
C8_Witness ==
    /\ Returned(result)
    /\ result.rows = <<>>
    /\ \E e \in Requested : YearsOf(e) # {}

\* C9: of several records of an entity at one year, only the first in dataset
\* order is used: every row of the output carries the measures of the first
\* record of its entity at its original_year.
C9_FirstRecordOnly ==
    Returned(result) =>
        \A i \in 1..Len(result.rows) :
            LET row == result.rows[i]
                same == RecordsAt(row.country, row.original_year)
                first == CHOOSE k \in same : \A m \in same : k <= m
            IN row.pop = df.rows[first].pop

\* C10: the rows of the output are in the order of their entities in the
\* `countries` argument, whatever the order of the records in the dataset.
C10_OrderOfCountries ==
    Returned(result) =>
        \A i, j \in 1..Len(result.rows) :
            PositionOf(result.rows[i].country) < PositionOf(result.rows[j].country)
                => i < j

\* rows of two entities, the records of which are in the opposite order in the dataset
C10_Witness ==
    /\ Returned(result)
    /\ \E i, j \in 1..Len(result.rows) :
          /\ i < j
          /\ result.rows[i].country # result.rows[j].country
          /\ \A k \in RecordsOf(result.rows[i].country) :
                \A m \in RecordsOf(result.rows[j].country) : m < k

\* C12: the dataset is read-only: after any sequence of fill_missing_data
\* calls it holds exactly the records it held when loaded.
C12_DatasetReadOnly == df = source.contents

\* a call that imputed a row has returned, so a year was overwritten and tags were written
C12_Witness ==
    /\ Returned(result)
    /\ \E i \in 1..Len(result.rows) :
          result.rows[i].is_imputed /\ result.rows[i].year # result.rows[i].original_year

\* C11: fill_missing_data called again with the same dataset, target year
\* and entity list returns the same rows, with the same values in the same
\* order, as the first time, whatever calls were made in between.
C11_Idempotent ==
    (earlier # NoCall /\ result # NoCall) => result = earlier.result

\* the call is repeated after other calls, and its result holds an imputed row
C11_Witness ==
    /\ earlier # NoCall
    /\ earlier.between
    /\ Returned(result)
    /\ \E i \in 1..Len(result.rows) : result.rows[i].is_imputed

\* the figure of a bar or pie chart has been returned
Drawn(chart) == "chart" \in DOMAIN figure /\ figure.chart = chart

\* C13: the footnote of a chart is shown exactly when a row of the row set
\* the chart was given is imputed: the rows kept for the bar chart, the
\* reconstruction for the pie chart.  It is not shown for an empty row set
\* nor when every row is an exact match of the target year.
C13_AnyRowImputed ==
    /\ ~has_imputed(EmptyFrame)
    /\ Drawn("bar") =>
          /\ figure.annotations.footnote
                <=> \E i \in 1..Len(figure.data) : figure.data[i].is_imputed
          /\ (\A i \in 1..Len(figure.data) : figure.data[i].year = figure.data[i].original_year)
                => ~figure.annotations.footnote
    /\ Drawn("pie") =>
          /\ figure.annotations.footnote
                <=> \E i \in 1..Len(result.rows) : result.rows[i].is_imputed
          /\ (\A i \in 1..Len(result.rows) : result.rows[i].year = result.rows[i].original_year)
                => ~figure.annotations.footnote

\* a bar chart of an imputed row and an exact one shows the footnote
C13_Witness ==
    /\ Drawn("bar")
    /\ figure.annotations.footnote
    /\ \E i, j \in 1..Len(figure.data) :
          figure.data[i].is_imputed /\ ~figure.data[j].is_imputed

\* how many times row occurs in rows
Count(rows, row) == Cardinality({i \in 1..Len(rows) : rows[i] = row})

\* the sum of the population of the reconstructed rows at the positions S
RECURSIVE Total(_)
Total(S) ==
    IF S = {} THEN 0
    ELSE LET k == CHOOSE k \in S : TRUE
         IN result.rows[k].pop + Total(S \ {k})

\* the positions of the reconstructed rows of continent c
RowsIn(c) == {k \in 1..Len(result.rows) : result.rows[k].continent = c}

\* C14: the bar chart is given min(15, n) of the n reconstructed rows, each
\* no more often than the reconstruction holds it, by population descending,
\* and no row left out has a population above that of a row kept; the pie
\* chart is given one row per continent of the reconstruction, with the sum
\* of the population of the reconstructed rows of that continent.
C14_TopAndGroups ==
    /\ Drawn("bar") =>
          /\ Len(figure.data) = Min({TopN, Len(result.rows)})
          /\ \A i \in 1..Len(figure.data) :
                Count(figure.data, figure.data[i]) <= Count(result.rows, figure.data[i])
          /\ \A i, j \in 1..Len(figure.data) :
                i < j => figure.data[i].pop >= figure.data[j].pop
          /\ \A k \in 1..Len(result.rows) :
                Count(figure.data, result.rows[k]) < Count(result.rows, result.rows[k])
                   => \A i \in 1..Len(figure.data) :
                         figure.data[i].pop >= result.rows[k].pop
    /\ Drawn("pie") =>
          /\ \A k \in 1..Len(result.rows) :
                Cardinality({i \in 1..Len(figure.data) :
                    figure.data[i].continent = result.rows[k].continent}) = 1
          /\ \A i \in 1..Len(figure.data) :
                /\ RowsIn(figure.data[i].continent) # {}
                /\ figure.data[i].pop = Total(RowsIn(figure.data[i].continent))

\* the bar chart keeps 15 of more rows, some imputed, and a row left out has
\* the population of a row kept
C14_Witness ==
    /\ Drawn("bar")
    /\ Len(result.rows) > TopN
    /\ Len(figure.data) = TopN
    /\ \E i \in 1..Len(figure.data) : figure.data[i].is_imputed
    /\ \E k \in 1..Len(result.rows) :
          /\ Count(figure.data, result.rows[k]) = 0
          /\ \E i \in 1..Len(figure.data) : figure.data[i].pop = result.rows[k].pop

\* C15: the store starts at the slider's first value, the last year; it
\* changes only to the value the slider holds; and when no callback is due,
\* the store holds the slider's value and each of the three charts was
\* computed for it.
C15_YearPropagation ==
    /\ store = year_slider.value /\ store = year_slider.max
    /\ [][store' # store => store' = year_slider.value]_vars
    /\ [](pending = {} =>
            /\ store = year_slider.value
            /\ \A c \in ChartCallbacks :
                  charts[c] # NoCall /\ charts[c].year = year_slider.value)

\* the slider was moved off the last year and every callback has run
C15_Witness ==
    /\ pending = {}
    /\ year_slider # NoCall
    /\ year_slider.value # year_slider.max
    /\ charts["update_bubble_chart"].year = year_slider.value

\* C16: every chart the page computes, for whatever year the slider emits, is
\* computed from a reconstruction with at least one row.
C16_ReconstructionNotEmpty ==
    year_slider # NoCall =>
        \A c \in ChartCallbacks :
            charts[c] # NoCall =>
                /\ Returned(charts[c].filled_df)
                /\ charts[c].filled_df.rows # <<>>

\* a chart was computed for a year at which no entity has a record
C16_Witness ==
    /\ year_slider # NoCall
    /\ \E c \in ChartCallbacks :
          /\ charts[c] # NoCall
          /\ charts[c].year \notin Unique(df, "year")
          /\ charts[c].filled_df.rows # <<>>

\* C17: on every dataset, target year and entity list, fill_missing_data of
\* app.py returns the rows that fill_missing_data of data_processing.py
\* returns, in the same order and with the same values in every column.
C17_VariantsAgree ==
    result # NoCall => app_fill_missing_data(df, selected_year, countries) = result

\* both variants were given an entity with an exact match, one to impute and
\* one to leave out
C17_Witness ==
    /\ Returned(result)
    /\ Len(countries) > Len(result.rows)
    /\ \E i, j \in 1..Len(result.rows) :
          result.rows[i].is_imputed /\ ~result.rows[j].is_imputed
    /\ app_fill_missing_data(df, selected_year, countries).rows # <<>>

====
